---- MODULE Spec2Model ----
(***************************************************************************)
(* Model of the streaming-split coordinator (SplitCoordinator and the      *)
(* StreamSplitDatasetIterator client generator) and of the LimitOperator.  *)
(*                                                                         *)
(* Spec      : N clients that follow gen_blocks() drive the coordinator.   *)
(* SpecFree  : the N actor threads serve arbitrary start_epoch/get calls.  *)
(* SpecLimit : a LimitOperator receives arbitrary add_input/get_next calls.*)
(***************************************************************************)
EXTENDS Integers, Sequences, FiniteSets, TLC

\* ------------------------------------------------------------------------
\* Parameters and bounds
\* ------------------------------------------------------------------------

\* SplitCoordinator.__init__ argument n (self._n); also max_concurrency.
N == 2

\* Number of epochs the model lets the coordinator create (epochs 0..MaxEpoch).
MaxEpoch == 1

\* Largest number of blocks the runner produces for one output index in one
\* epoch.
MaxBlocksPerIndex == 2

\* Largest limit of the LimitOperator.
MaxLimit == 7

\* Largest row count of one input block of the LimitOperator.
MaxRows == 3

\* Number of blocks the upstream operator passes to the LimitOperator.
MaxInputBlocks == 3

\* num_outputs_total() of the LimitOperator's upstream operator, when known.
UpstreamEstimate == 1


Indices == 0 .. (N - 1)
Threads == 0 .. (N - 1)

\* A block is <<epoch, output index, position in the splitter's assignment>>.
NoBlock == <<-2, -2, 0>>
\* A bundle object is named <<epoch, output index, number of its first block>>.
NoBundle == <<-2, -2, 0>>

\* ------------------------------------------------------------------------
\* State
\* ------------------------------------------------------------------------
VARIABLES
    next_bundle,                    \* self._next_bundle: index -> bundle object
    unfinished_clients_in_epoch,    \* self._unfinished_clients_in_epoch
    cur_epoch,                      \* self._cur_epoch
    output_iterator,                \* self._output_iterator
    epochs_built,                   \* number of values gen_epochs() has yielded
    lock,                           \* holder of self._lock, or -1
    bundle_blocks,                  \* contents (.blocks) of the live bundle objects
    pc,                             \* per actor thread: position in its call
    op,                             \* per actor thread: the method it runs
    split_idx,                      \* argument split_idx / output_split_idx
    epoch_id,                       \* argument epoch_id of get
    starting_epoch,                 \* local starting_epoch of _barrier
    local_bundle,                   \* local next_bundle of get
    block,                          \* local block of get
    ret,                            \* result of the call
    gen_epoch,                      \* cur_epoch local of gen_blocks
    received,                       \* blocks yielded by gen_blocks / returned by get
    limit,                          \* LimitOperator._limit
    consumed_rows,                  \* LimitOperator._consumed_rows
    buffer,                         \* LimitOperator._buffer
    output_metadata,                \* LimitOperator._output_metadata
    num_outputs_total_init,         \* LimitOperator._num_outputs_total
    inputs,                         \* every bundle passed to add_input so far
    emitted,                        \* every bundle appended to _buffer so far
    returned,                       \* every bundle get_next has returned so far
    raised                          \* exception raised by the latest LimitOperator call

coordVars == <<next_bundle, unfinished_clients_in_epoch, cur_epoch,
               output_iterator, epochs_built>>
threadVars == <<pc, op, split_idx, epoch_id, starting_epoch, local_bundle,
                block, ret>>
clientVars == <<gen_epoch, received>>
limitVars == <<limit, consumed_rows, buffer, output_metadata,
               num_outputs_total_init, inputs, emitted, returned, raised>>
vars == <<coordVars, lock, bundle_blocks, threadVars, clientVars, limitVars>>

\* ------------------------------------------------------------------------
\* Results of a call
\* ------------------------------------------------------------------------
NoResult == [kind |-> "pending", epoch |-> -2, block |-> NoBlock]
EpochResult(e) == [kind |-> "epoch", epoch |-> e, block |-> NoBlock]
BlockResult(b) == [kind |-> "block", epoch |-> -2, block |-> b]
NothingResult == [kind |-> "nothing", epoch |-> -2, block |-> NoBlock]
ErrorResult(name) == [kind |-> name, epoch |-> -2, block |-> NoBlock]

ErrorKinds == {"InvalidEpoch", "AssertionError", "AttributeError", "IndexError",
               "PipelineError"}

\* ------------------------------------------------------------------------
\* The pipeline runner (execute_to_legacy_bundle_iterator's iterator)
\* ------------------------------------------------------------------------
NoRunner == [exists |-> FALSE, epoch |-> -2,
             produced |-> [i \in Indices |-> 0],
             exhausted |-> [i \in Indices |-> FALSE]]

\* next(self._next_epoch): a fresh runner for epoch e.
NewRunner(e) == [exists |-> TRUE, epoch |-> e,
                 produced |-> [i \in Indices |-> 0],
                 exhausted |-> [i \in Indices |-> FALSE]]

\* The blocks of the bundle get_next(i) returns when it holds size blocks.
RunnerBundle(runner, i, size) ==
    [k \in 1 .. size |-> <<runner.epoch, i, runner.produced[i] + k>>]

\* The blocks the splitter has assigned to index i so far, in order.
Assigned(runner, i) == [k \in 1 .. runner.produced[i] |-> <<runner.epoch, i, k>>]

\* ------------------------------------------------------------------------
\* Initial state
\* ------------------------------------------------------------------------
InitCoord ==
    /\ next_bundle = <<>>
    /\ unfinished_clients_in_epoch = N
    /\ cur_epoch = -1
    /\ output_iterator = NoRunner
    /\ epochs_built = 0
    /\ lock = -1
    /\ bundle_blocks = <<>>
    /\ pc = [t \in Threads |-> "idle"]
    /\ op = [t \in Threads |-> "none"]
    /\ split_idx = [t \in Threads |-> t]
    /\ epoch_id = [t \in Threads |-> -1]
    /\ starting_epoch = [t \in Threads |-> -1]
    /\ local_bundle = [t \in Threads |-> NoBundle]
    /\ block = [t \in Threads |-> NoBlock]
    /\ ret = [t \in Threads |-> NoResult]
    /\ gen_epoch = [c \in Indices |-> -1]
    /\ received = [c \in Indices |-> <<>>]

LimitUnused ==
    /\ limit = 0
    /\ consumed_rows = 0
    /\ buffer = <<>>
    /\ output_metadata = <<>>
    /\ num_outputs_total_init = -1
    /\ inputs = <<>>
    /\ emitted = <<>>
    /\ returned = <<>>
    /\ raised = "none"

Init == InitCoord /\ LimitUnused

\* ------------------------------------------------------------------------
\* Helpers on the leftover map and the bundle objects
\* ------------------------------------------------------------------------
\* self._next_bundle[i] = b
MapStore(m, i, b) == [j \in (DOMAIN m) \cup {i} |-> IF j = i THEN b ELSE m[j]]
\* MapDelete that drops every entry of the map.
MapDeleteAll(m, i) == <<>>
\* del self._next_bundle[i]
MapDelete(m, i) == [j \in (DOMAIN m) \ {i} |-> m[j]]

\* Bundle objects still referenced by the map or by a local of a thread
\* other than t; all others are garbage once t drops its local.
LiveBundles(m, t) ==
    {m[i] : i \in DOMAIN m} \cup {local_bundle[u] : u \in Threads \ {t}}

Collect(heap, m, t) ==
    [b \in (DOMAIN heap) \cap LiveBundles(m, t) |-> heap[b]]

\* ------------------------------------------------------------------------
\* SplitCoordinator._barrier (called by start_epoch)
\* ------------------------------------------------------------------------
\* with self._lock: (first block)
BarrierAcquire1(t) ==
    /\ pc[t] = "b_lock1"
    /\ lock = -1
    /\ lock' = t
    /\ pc' = [pc EXCEPT ![t] = "b_arrive"]
    /\ UNCHANGED <<coordVars, bundle_blocks, op, split_idx, epoch_id,
                   starting_epoch, local_bundle, block, ret, clientVars, limitVars>>

\* BarrierArrive with an arrival that counts twice.
BarrierArriveTwice(t) ==
    /\ pc[t] = "b_arrive"
    /\ lock = t
    /\ starting_epoch' = [starting_epoch EXCEPT ![t] = cur_epoch]
    /\ unfinished_clients_in_epoch' = unfinished_clients_in_epoch - 2
    /\ lock' = -1
    /\ pc' = [pc EXCEPT ![t] = "b_poll"]
    /\ UNCHANGED <<next_bundle, cur_epoch, output_iterator, epochs_built,
                   bundle_blocks, op, split_idx, epoch_id, local_bundle, block,
                   ret, clientVars, limitVars>>

\* starting_epoch = self._cur_epoch; self._unfinished_clients_in_epoch -= 1
BarrierArrive(t) ==
    /\ pc[t] = "b_arrive"
    /\ lock = t
    /\ starting_epoch' = [starting_epoch EXCEPT ![t] = cur_epoch]
    /\ unfinished_clients_in_epoch' = unfinished_clients_in_epoch - 1
    /\ lock' = -1
    /\ pc' = [pc EXCEPT ![t] = "b_poll"]
    /\ UNCHANGED <<next_bundle, cur_epoch, output_iterator, epochs_built,
                   bundle_blocks, op, split_idx, epoch_id, local_bundle, block,
                   ret, clientVars, limitVars>>

\* BarrierPollEpoch that goes on to the counter whatever the epoch is.
BarrierPollEpochCountOnly(t) ==
    /\ pc[t] = "b_poll"
    /\ pc' = [pc EXCEPT ![t] = "b_poll_count"]
    /\ UNCHANGED <<coordVars, lock, bundle_blocks, op, split_idx, epoch_id,
                   starting_epoch, local_bundle, block, ret, clientVars, limitVars>>

\* BarrierPollEpoch that leaves the loop without looking at the epoch.
BarrierPollEpochNoWait(t) ==
    /\ pc[t] = "b_poll"
    /\ pc' = [pc EXCEPT ![t] = "b_lock2"]
    /\ UNCHANGED <<coordVars, lock, bundle_blocks, op, split_idx, epoch_id,
                   starting_epoch, local_bundle, block, ret, clientVars, limitVars>>

\* while self._cur_epoch == starting_epoch and ...: first operand
BarrierPollEpoch(t) ==
    /\ pc[t] = "b_poll"
    /\ pc' = [pc EXCEPT ![t] = IF cur_epoch = starting_epoch[t]
                               THEN "b_poll_count" ELSE "b_lock2"]
    /\ UNCHANGED <<coordVars, lock, bundle_blocks, op, split_idx, epoch_id,
                   starting_epoch, local_bundle, block, ret, clientVars, limitVars>>

\* BarrierPollCount that leaves the loop as soon as one client is missing.
BarrierPollCountEarly(t) ==
    /\ pc[t] = "b_poll_count"
    /\ pc' = [pc EXCEPT ![t] = IF unfinished_clients_in_epoch > 1
                               THEN "b_poll" ELSE "b_lock2"]
    /\ UNCHANGED <<coordVars, lock, bundle_blocks, op, split_idx, epoch_id,
                   starting_epoch, local_bundle, block, ret, clientVars, limitVars>>

\* BarrierPollCount that leaves the loop whatever the counter is.
BarrierPollCountNoWait(t) ==
    /\ pc[t] = "b_poll_count"
    /\ pc' = [pc EXCEPT ![t] = "b_lock2"]
    /\ UNCHANGED <<coordVars, lock, bundle_blocks, op, split_idx, epoch_id,
                   starting_epoch, local_bundle, block, ret, clientVars, limitVars>>

\* ... and self._unfinished_clients_in_epoch != 0: second operand, then sleep
BarrierPollCount(t) ==
    /\ pc[t] = "b_poll_count"
    /\ pc' = [pc EXCEPT ![t] = IF unfinished_clients_in_epoch # 0
                               THEN "b_poll" ELSE "b_lock2"]
    /\ UNCHANGED <<coordVars, lock, bundle_blocks, op, split_idx, epoch_id,
                   starting_epoch, local_bundle, block, ret, clientVars, limitVars>>

\* BarrierAcquire2 that passes over the second critical section when the
\* epoch has already moved on.
BarrierAcquire2SkipIfMoved(t) ==
    /\ pc[t] = "b_lock2"
    /\ IF cur_epoch # starting_epoch[t]
       THEN /\ pc' = [pc EXCEPT ![t] = "b_assert"]
            /\ UNCHANGED lock
       ELSE /\ lock = -1
            /\ lock' = t
            /\ pc' = [pc EXCEPT ![t] = "b_check"]
    /\ UNCHANGED <<coordVars, bundle_blocks, op, split_idx, epoch_id,
                   starting_epoch, local_bundle, block, ret, clientVars, limitVars>>

\* with self._lock: (second block)
BarrierAcquire2(t) ==
    /\ pc[t] = "b_lock2"
    /\ lock = -1
    /\ lock' = t
    /\ pc' = [pc EXCEPT ![t] = "b_check"]
    /\ UNCHANGED <<coordVars, bundle_blocks, op, split_idx, epoch_id,
                   starting_epoch, local_bundle, block, ret, clientVars, limitVars>>

\* BarrierAdvance that moves the epoch id on by two.
BarrierAdvanceByTwo(t) ==
    /\ pc[t] = "b_check"
    /\ lock = t
    /\ cur_epoch = starting_epoch[t]
    /\ cur_epoch' = cur_epoch + 2
    /\ pc' = [pc EXCEPT ![t] = "b_reset"]
    /\ UNCHANGED <<next_bundle, unfinished_clients_in_epoch, output_iterator,
                   epochs_built, lock, bundle_blocks, op, split_idx, epoch_id,
                   starting_epoch, local_bundle, block, ret, clientVars, limitVars>>

\* BarrierAdvance without the re-check of the epoch under the lock.
BarrierAdvanceUnchecked(t) ==
    /\ pc[t] = "b_check"
    /\ lock = t
    /\ cur_epoch' = cur_epoch + 1
    /\ pc' = [pc EXCEPT ![t] = "b_reset"]
    /\ UNCHANGED <<next_bundle, unfinished_clients_in_epoch, output_iterator,
                   epochs_built, lock, bundle_blocks, op, split_idx, epoch_id,
                   starting_epoch, local_bundle, block, ret, clientVars, limitVars>>

\* if self._cur_epoch == starting_epoch: self._cur_epoch += 1
BarrierAdvance(t) ==
    /\ pc[t] = "b_check"
    /\ lock = t
    /\ cur_epoch = starting_epoch[t]
    /\ cur_epoch' = cur_epoch + 1
    /\ pc' = [pc EXCEPT ![t] = "b_reset"]
    /\ UNCHANGED <<next_bundle, unfinished_clients_in_epoch, output_iterator,
                   epochs_built, lock, bundle_blocks, op, split_idx, epoch_id,
                   starting_epoch, local_bundle, block, ret, clientVars, limitVars>>

\* the if is false: leave the with block
BarrierSkip(t) ==
    /\ pc[t] = "b_check"
    /\ lock = t
    /\ cur_epoch # starting_epoch[t]
    /\ lock' = -1
    /\ pc' = [pc EXCEPT ![t] = "b_assert"]
    /\ UNCHANGED <<coordVars, bundle_blocks, op, split_idx, epoch_id,
                   starting_epoch, local_bundle, block, ret, clientVars, limitVars>>

\* BarrierReset that sets the counter to one less than the number of clients.
BarrierResetShort(t) ==
    /\ pc[t] = "b_reset"
    /\ lock = t
    /\ unfinished_clients_in_epoch' = N - 1
    /\ pc' = [pc EXCEPT ![t] = "b_next_epoch"]
    /\ UNCHANGED <<next_bundle, cur_epoch, output_iterator, epochs_built, lock,
                   bundle_blocks, op, split_idx, epoch_id, starting_epoch,
                   local_bundle, block, ret, clientVars, limitVars>>

\* self._unfinished_clients_in_epoch = self._n
BarrierReset(t) ==
    /\ pc[t] = "b_reset"
    /\ lock = t
    /\ unfinished_clients_in_epoch' = N
    /\ pc' = [pc EXCEPT ![t] = "b_next_epoch"]
    /\ UNCHANGED <<next_bundle, cur_epoch, output_iterator, epochs_built, lock,
                   bundle_blocks, op, split_idx, epoch_id, starting_epoch,
                   local_bundle, block, ret, clientVars, limitVars>>

\* self._output_iterator = next(self._next_epoch); leave the with block
BarrierNextEpoch(t) ==
    /\ pc[t] = "b_next_epoch"
    /\ lock = t
    /\ output_iterator' = NewRunner(epochs_built)
    /\ epochs_built' = epochs_built + 1
    /\ lock' = -1
    /\ pc' = [pc EXCEPT ![t] = "b_assert"]
    /\ UNCHANGED <<next_bundle, unfinished_clients_in_epoch, cur_epoch,
                   bundle_blocks, op, split_idx, epoch_id, starting_epoch,
                   local_bundle, block, ret, clientVars, limitVars>>

\* BarrierReturn that returns self._cur_epoch + 1.
BarrierReturnCurrent(t) ==
    /\ pc[t] = "b_assert"
    /\ ret' = [ret EXCEPT ![t] = IF output_iterator.exists
                                 THEN EpochResult(cur_epoch + 1)
                                 ELSE ErrorResult("AssertionError")]
    /\ pc' = [pc EXCEPT ![t] = "ret"]
    /\ UNCHANGED <<coordVars, lock, bundle_blocks, op, split_idx, epoch_id,
                   starting_epoch, local_bundle, block, clientVars, limitVars>>

\* assert self._output_iterator is not None; return starting_epoch + 1
BarrierReturn(t) ==
    /\ pc[t] = "b_assert"
    /\ ret' = [ret EXCEPT ![t] = IF output_iterator.exists
                                 THEN EpochResult(starting_epoch[t] + 1)
                                 ELSE ErrorResult("AssertionError")]
    /\ pc' = [pc EXCEPT ![t] = "ret"]
    /\ UNCHANGED <<coordVars, lock, bundle_blocks, op, split_idx, epoch_id,
                   starting_epoch, local_bundle, block, clientVars, limitVars>>

\* ------------------------------------------------------------------------
\* SplitCoordinator.get
\* ------------------------------------------------------------------------
\* GetCheckEpoch without the comparison: every epoch id is accepted.
GetCheckEpochSkipped(t) ==
    /\ pc[t] = "g_check"
    /\ pc' = [pc EXCEPT ![t] = "g_lock1"]
    /\ UNCHANGED <<coordVars, lock, bundle_blocks, op, split_idx, epoch_id,
                   starting_epoch, local_bundle, block, ret, clientVars, limitVars>>

\* GetCheckEpoch that rejects only epoch ids ahead of the current epoch.
GetCheckEpochAhead(t) ==
    /\ pc[t] = "g_check"
    /\ IF epoch_id[t] > cur_epoch
       THEN /\ ret' = [ret EXCEPT ![t] = ErrorResult("InvalidEpoch")]
            /\ pc' = [pc EXCEPT ![t] = "ret"]
       ELSE /\ pc' = [pc EXCEPT ![t] = "g_lock1"]
            /\ UNCHANGED ret
    /\ UNCHANGED <<coordVars, lock, bundle_blocks, op, split_idx, epoch_id,
                   starting_epoch, local_bundle, block, clientVars, limitVars>>

\* if epoch_id != self._cur_epoch: raise ValueError(...)
GetCheckEpoch(t) ==
    /\ pc[t] = "g_check"
    /\ IF epoch_id[t] # cur_epoch
       THEN /\ ret' = [ret EXCEPT ![t] = ErrorResult("InvalidEpoch")]
            /\ pc' = [pc EXCEPT ![t] = "ret"]
       ELSE /\ pc' = [pc EXCEPT ![t] = "g_lock1"]
            /\ UNCHANGED ret
    /\ UNCHANGED <<coordVars, lock, bundle_blocks, op, split_idx, epoch_id,
                   starting_epoch, local_bundle, block, clientVars, limitVars>>

\* with self._lock: (first block)
GetAcquire1(t) ==
    /\ pc[t] = "g_lock1"
    /\ lock = -1
    /\ lock' = t
    /\ pc' = [pc EXCEPT ![t] = "g_peek"]
    /\ UNCHANGED <<coordVars, bundle_blocks, op, split_idx, epoch_id,
                   starting_epoch, local_bundle, block, ret, clientVars, limitVars>>

\* GetPeek that does not look for an entry and always asks for a pull.
GetPeekIgnoreEntry(t) ==
    /\ pc[t] = "g_peek"
    /\ lock = t
    /\ local_bundle' = [local_bundle EXCEPT ![t] = NoBundle]
    /\ pc' = [pc EXCEPT ![t] = "g_pull"]
    /\ lock' = -1
    /\ UNCHANGED <<coordVars, bundle_blocks, op, split_idx, epoch_id,
                   starting_epoch, block, ret, clientVars, limitVars>>

\* GetPeek that keeps the lock when it leaves the with block.
GetPeekKeepLock(t) ==
    /\ pc[t] = "g_peek"
    /\ lock = t
    /\ IF split_idx[t] \in DOMAIN next_bundle
       THEN /\ local_bundle' = [local_bundle EXCEPT ![t] = next_bundle[split_idx[t]]]
            /\ pc' = [pc EXCEPT ![t] = "g_pop"]
       ELSE /\ local_bundle' = [local_bundle EXCEPT ![t] = NoBundle]
            /\ pc' = [pc EXCEPT ![t] = "g_pull"]
    /\ UNCHANGED <<coordVars, lock, bundle_blocks, op, split_idx, epoch_id,
                   starting_epoch, block, ret, clientVars, limitVars>>

\* next_bundle = self._next_bundle[output_split_idx] if present else None
GetPeek(t) ==
    /\ pc[t] = "g_peek"
    /\ lock = t
    /\ IF split_idx[t] \in DOMAIN next_bundle
       THEN /\ local_bundle' = [local_bundle EXCEPT ![t] = next_bundle[split_idx[t]]]
            /\ pc' = [pc EXCEPT ![t] = "g_pop"]
       ELSE /\ local_bundle' = [local_bundle EXCEPT ![t] = NoBundle]
            /\ pc' = [pc EXCEPT ![t] = "g_pull"]
    /\ lock' = -1
    /\ UNCHANGED <<coordVars, bundle_blocks, op, split_idx, epoch_id,
                   starting_epoch, block, ret, clientVars, limitVars>>

\* next_bundle = self._output_iterator.get_next(output_split_idx): a bundle
GetPullBundle(t, size) ==
    /\ pc[t] = "g_pull"
    /\ output_iterator.exists
    /\ ~output_iterator.exhausted[split_idx[t]]
    /\ output_iterator.produced[split_idx[t]] + size <= MaxBlocksPerIndex
    /\ LET i == split_idx[t]
           b == <<output_iterator.epoch, i, output_iterator.produced[i] + 1>>
       IN /\ bundle_blocks' =
                 [x \in (DOMAIN bundle_blocks) \cup {b} |->
                     IF x = b THEN RunnerBundle(output_iterator, i, size)
                     ELSE bundle_blocks[x]]
          /\ local_bundle' = [local_bundle EXCEPT ![t] = b]
          /\ output_iterator' =
                 [output_iterator EXCEPT !.produced[i] = @ + size]
    /\ pc' = [pc EXCEPT ![t] = "g_pop"]
    /\ UNCHANGED <<next_bundle, unfinished_clients_in_epoch, cur_epoch,
                   epochs_built, lock, op, split_idx, epoch_id, starting_epoch,
                   block, ret, clientVars, limitVars>>

\* get_next raises StopIteration; except StopIteration: return None
GetPullExhausted(t) ==
    /\ pc[t] = "g_pull"
    /\ output_iterator.exists
    /\ output_iterator' =
           [output_iterator EXCEPT !.exhausted[split_idx[t]] = TRUE]
    /\ ret' = [ret EXCEPT ![t] = NothingResult]
    /\ pc' = [pc EXCEPT ![t] = "ret"]
    /\ UNCHANGED <<next_bundle, unfinished_clients_in_epoch, cur_epoch,
                   epochs_built, lock, bundle_blocks, op, split_idx, epoch_id,
                   starting_epoch, local_bundle, block, clientVars, limitVars>>

\* The block removed by next_bundle.blocks.pop() and what stays in the list.
PopBlock(blocks) == blocks[Len(blocks)]
\* PopRest that drops two blocks.
PopRestTwo(blocks) == SubSeq(blocks, 1, Len(blocks) - 2)
PopRest(blocks) == SubSeq(blocks, 1, Len(blocks) - 1)

\* block = next_bundle.blocks.pop()[0]
GetPop(t) ==
    /\ pc[t] = "g_pop"
    /\ LET b == local_bundle[t]
       IN IF Len(bundle_blocks[b]) = 0
          THEN /\ ret' = [ret EXCEPT ![t] = ErrorResult("IndexError")]
               /\ pc' = [pc EXCEPT ![t] = "ret"]
               /\ local_bundle' = [local_bundle EXCEPT ![t] = NoBundle]
               /\ bundle_blocks' = Collect(bundle_blocks, next_bundle, t)
               /\ UNCHANGED block
          ELSE /\ block' = [block EXCEPT ![t] = PopBlock(bundle_blocks[b])]
               /\ bundle_blocks' =
                      [bundle_blocks EXCEPT ![b] = PopRest(bundle_blocks[b])]
               /\ pc' = [pc EXCEPT ![t] = "g_lock2"]
               /\ UNCHANGED <<ret, local_bundle>>
    /\ UNCHANGED <<coordVars, lock, op, split_idx, epoch_id, starting_epoch,
                   clientVars, limitVars>>

\* with self._lock: (second block)
GetAcquire2(t) ==
    /\ pc[t] = "g_lock2"
    /\ lock = -1
    /\ lock' = t
    /\ pc' = [pc EXCEPT ![t] = "g_store"]
    /\ UNCHANGED <<coordVars, bundle_blocks, op, split_idx, epoch_id,
                   starting_epoch, local_bundle, block, ret, clientVars, limitVars>>

\* GetStore that leaves the entry in the map when the bundle is empty.
GetStoreNoDelete(t) ==
    /\ pc[t] = "g_store"
    /\ lock = t
    /\ LET i == split_idx[t]
           b == local_bundle[t]
           m == MapStore(next_bundle, i, b)
       IN /\ next_bundle' = m
          /\ bundle_blocks' = Collect(bundle_blocks, m, t)
    /\ local_bundle' = [local_bundle EXCEPT ![t] = NoBundle]
    /\ ret' = [ret EXCEPT ![t] = BlockResult(block[t])]
    /\ lock' = -1
    /\ pc' = [pc EXCEPT ![t] = "ret"]
    /\ UNCHANGED <<unfinished_clients_in_epoch, cur_epoch, output_iterator,
                   epochs_built, op, split_idx, epoch_id, starting_epoch, block,
                   clientVars, limitVars>>

\* self._next_bundle[i] = next_bundle; if not next_bundle.blocks: del ...;
\* return block
GetStore(t) ==
    /\ pc[t] = "g_store"
    /\ lock = t
    /\ LET i == split_idx[t]
           b == local_bundle[t]
           m == IF Len(bundle_blocks[b]) = 0
                THEN MapDelete(MapStore(next_bundle, i, b), i)
                ELSE MapStore(next_bundle, i, b)
       IN /\ next_bundle' = m
          /\ bundle_blocks' = Collect(bundle_blocks, m, t)
    /\ local_bundle' = [local_bundle EXCEPT ![t] = NoBundle]
    /\ ret' = [ret EXCEPT ![t] = BlockResult(block[t])]
    /\ lock' = -1
    /\ pc' = [pc EXCEPT ![t] = "ret"]
    /\ UNCHANGED <<unfinished_clients_in_epoch, cur_epoch, output_iterator,
                   epochs_built, op, split_idx, epoch_id, starting_epoch, block,
                   clientVars, limitVars>>

\* One step of the call that actor thread t is running, other than a pull
\* that returns a bundle.
ThreadStepExceptPull(t) ==
    \/ BarrierAcquire1(t)
    \/ BarrierArrive(t)
    \/ BarrierPollEpoch(t)
    \/ BarrierPollCount(t)
    \/ BarrierAcquire2(t)
    \/ BarrierAdvance(t)
    \/ BarrierSkip(t)
    \/ BarrierReset(t)
    \/ BarrierNextEpoch(t)
    \/ BarrierReturn(t)
    \/ GetCheckEpoch(t)
    \/ GetAcquire1(t)
    \/ GetPeek(t)
    \/ GetPullExhausted(t)
    \/ GetPop(t)
    \/ GetAcquire2(t)
    \/ GetStore(t)

\* One step of the call that actor thread t is running.
ThreadStep(t) ==
    \/ ThreadStepExceptPull(t)
    \/ \E size \in 1 .. MaxBlocksPerIndex : GetPullBundle(t, size)

\* ------------------------------------------------------------------------
\* StreamSplitDatasetIterator.iter_batches.gen_blocks (client c uses thread c)
\* ------------------------------------------------------------------------
\* cur_epoch = ray.get(self._coord_actor.start_epoch.remote(idx)): the call
GenBlocksStart(c) ==
    /\ pc[c] = "idle"
    /\ gen_epoch[c] < MaxEpoch
    /\ pc' = [pc EXCEPT ![c] = "b_lock1"]
    /\ op' = [op EXCEPT ![c] = "start_epoch"]
    /\ split_idx' = [split_idx EXCEPT ![c] = c]
    /\ ret' = [ret EXCEPT ![c] = NoResult]
    /\ received' = [received EXCEPT ![c] = <<>>]
    /\ UNCHANGED <<coordVars, lock, bundle_blocks, epoch_id, starting_epoch,
                   local_bundle, block, gen_epoch, limitVars>>

\* start_epoch returned: future = self._coord_actor.get.remote(cur_epoch, idx)
GenBlocksFirstGet(c) ==
    /\ pc[c] = "ret"
    /\ op[c] = "start_epoch"
    /\ ret[c].kind = "epoch"
    /\ gen_epoch' = [gen_epoch EXCEPT ![c] = ret[c].epoch]
    /\ epoch_id' = [epoch_id EXCEPT ![c] = ret[c].epoch]
    /\ op' = [op EXCEPT ![c] = "get"]
    /\ pc' = [pc EXCEPT ![c] = "g_check"]
    /\ ret' = [ret EXCEPT ![c] = NoResult]
    /\ UNCHANGED <<coordVars, lock, bundle_blocks, split_idx, starting_epoch,
                   local_bundle, block, received, limitVars>>

\* block_ref = ray.get(future) is a block: issue the next get, yield block_ref
GenBlocksYield(c) ==
    /\ pc[c] = "ret"
    /\ op[c] = "get"
    /\ ret[c].kind = "block"
    /\ received' = [received EXCEPT ![c] = Append(@, ret[c].block)]
    /\ epoch_id' = [epoch_id EXCEPT ![c] = gen_epoch[c]]
    /\ pc' = [pc EXCEPT ![c] = "g_check"]
    /\ ret' = [ret EXCEPT ![c] = NoResult]
    /\ UNCHANGED <<coordVars, lock, bundle_blocks, op, split_idx,
                   starting_epoch, local_bundle, block, gen_epoch, limitVars>>

\* GenBlocksEnd that issues one more get after the empty result.
GenBlocksEndRetry(c) ==
    /\ pc[c] = "ret"
    /\ op[c] = "get"
    /\ ret[c].kind = "nothing"
    /\ pc' = [pc EXCEPT ![c] = "g_check"]
    /\ ret' = [ret EXCEPT ![c] = NoResult]
    /\ UNCHANGED <<coordVars, lock, bundle_blocks, op, split_idx, epoch_id,
                   starting_epoch, local_bundle, block, clientVars, limitVars>>

\* block_ref is None: break, the generator ends
GenBlocksEnd(c) ==
    /\ pc[c] = "ret"
    /\ op[c] = "get"
    /\ ret[c].kind = "nothing"
    /\ pc' = [pc EXCEPT ![c] = "idle"]
    /\ op' = [op EXCEPT ![c] = "none"]
    /\ UNCHANGED <<coordVars, lock, bundle_blocks, split_idx, epoch_id,
                   starting_epoch, local_bundle, block, ret, clientVars, limitVars>>

ClientStep(c) ==
    \/ GenBlocksStart(c)
    \/ GenBlocksFirstGet(c)
    \/ GenBlocksYield(c)
    \/ GenBlocksEnd(c)

Next ==
    \/ \E t \in Threads : ThreadStep(t)
    \/ \E c \in Indices : ClientStep(c)

Spec == Init /\ [][Next]_vars

\* The clients of Spec when every actor thread that can take a step
\* eventually takes one: the threads of the pool run concurrently, the
\* sleep in the polling loop is bounded and the lock is released after
\* finitely many statements.
SpecFair == Spec /\ \A t \in Threads : WF_vars(ThreadStep(t))

\* The same clients over a runner whose bundles hold one block each (the
\* output of the terminal OutputSplitter).
NextSingle ==
    \/ \E t \in Threads : ThreadStepExceptPull(t)
    \/ \E t \in Threads : GetPullBundle(t, 1)
    \/ \E c \in Indices : ClientStep(c)

SpecSingle == Init /\ [][NextSingle]_vars

\* The consumer stops iterating: the generator is closed while it is
\* suspended at yield block_ref, after it has issued the next get; that get
\* runs to its end on the actor and the block it returns is dropped with the
\* future.
GenBlocksClose(c) ==
    /\ pc[c] = "ret"
    /\ op[c] = "get"
    /\ ret[c].kind = "block"
    /\ Len(received[c]) >= 1
    /\ pc' = [pc EXCEPT ![c] = "idle"]
    /\ op' = [op EXCEPT ![c] = "none"]
    /\ UNCHANGED <<coordVars, lock, bundle_blocks, split_idx, epoch_id,
                   starting_epoch, local_bundle, block, ret, clientVars, limitVars>>

\* Clients whose consumers may stop iterating in the middle of an epoch and
\* iterate again later.
NextClose ==
    \/ Next
    \/ \E c \in Indices : GenBlocksClose(c)

SpecClose == Init /\ [][NextClose]_vars

\* ------------------------------------------------------------------------
\* Arbitrary callers: any thread of the actor may serve any call
\* ------------------------------------------------------------------------
\* next_bundle = self._output_iterator.get_next(...) while the attribute is
\* still None
GetPullNoRunner(t) ==
    /\ pc[t] = "g_pull"
    /\ ~output_iterator.exists
    /\ ret' = [ret EXCEPT ![t] = ErrorResult("AttributeError")]
    /\ pc' = [pc EXCEPT ![t] = "ret"]
    /\ UNCHANGED <<coordVars, lock, bundle_blocks, op, split_idx, epoch_id,
                   starting_epoch, local_bundle, block, clientVars, limitVars>>

\* GetPullFails with the failure handled like StopIteration.
GetPullFailsMasked(t) ==
    /\ pc[t] = "g_pull"
    /\ output_iterator.exists
    /\ ret' = [ret EXCEPT ![t] = NothingResult]
    /\ pc' = [pc EXCEPT ![t] = "ret"]
    /\ UNCHANGED <<coordVars, lock, bundle_blocks, op, split_idx, epoch_id,
                   starting_epoch, local_bundle, block, clientVars, limitVars>>

\* get_next raises an exception that is not StopIteration: no except clause
\* of get matches it and it leaves get
GetPullFails(t) ==
    /\ pc[t] = "g_pull"
    /\ output_iterator.exists
    /\ ret' = [ret EXCEPT ![t] = ErrorResult("PipelineError")]
    /\ pc' = [pc EXCEPT ![t] = "ret"]
    /\ UNCHANGED <<coordVars, lock, bundle_blocks, op, split_idx, epoch_id,
                   starting_epoch, local_bundle, block, clientVars, limitVars>>

\* The actor runs a new call on a free thread of its pool; the threads are
\* interchangeable, so the call goes to the first free one.
FreeThread(t) ==
    /\ pc[t] = "idle"
    /\ \A u \in Threads : u < t => pc[u] # "idle"

\* a caller invokes start_epoch(i)
CallStartEpoch(t, i) ==
    /\ FreeThread(t)
    /\ cur_epoch < MaxEpoch
    /\ pc' = [pc EXCEPT ![t] = "b_lock1"]
    /\ op' = [op EXCEPT ![t] = "start_epoch"]
    /\ split_idx' = [split_idx EXCEPT ![t] = i]
    /\ ret' = [ret EXCEPT ![t] = NoResult]
    /\ UNCHANGED <<coordVars, lock, bundle_blocks, epoch_id, starting_epoch,
                   local_bundle, block, gen_epoch, received, limitVars>>

\* a caller invokes get(e, i)
CallGet(t, e, i) ==
    /\ FreeThread(t)
    /\ pc' = [pc EXCEPT ![t] = "g_check"]
    /\ op' = [op EXCEPT ![t] = "get"]
    /\ split_idx' = [split_idx EXCEPT ![t] = i]
    /\ epoch_id' = [epoch_id EXCEPT ![t] = e]
    /\ ret' = [ret EXCEPT ![t] = NoResult]
    /\ UNCHANGED <<coordVars, lock, bundle_blocks, starting_epoch,
                   local_bundle, block, gen_epoch, received, limitVars>>

\* the call ends, its result reaches the caller and its frame is dropped
CallReturn(t) ==
    /\ pc[t] = "ret"
    /\ pc' = [pc EXCEPT ![t] = "idle"]
    /\ op' = [op EXCEPT ![t] = "none"]
    /\ split_idx' = [split_idx EXCEPT ![t] = t]
    /\ epoch_id' = [epoch_id EXCEPT ![t] = -1]
    /\ starting_epoch' = [starting_epoch EXCEPT ![t] = -1]
    /\ block' = [block EXCEPT ![t] = NoBlock]
    /\ ret' = [ret EXCEPT ![t] = NoResult]
    /\ UNCHANGED <<coordVars, lock, bundle_blocks, local_bundle, clientVars,
                   limitVars>>

NextFree ==
    \/ \E t \in Threads : ThreadStep(t)
    \/ \E t \in Threads : GetPullNoRunner(t)
    \/ \E t \in Threads : GetPullFails(t)
    \/ \E t \in Threads, i \in Indices : CallStartEpoch(t, i)
    \/ \E t \in Threads, e \in -1 .. MaxEpoch, i \in Indices : CallGet(t, e, i)
    \/ \E t \in Threads : CallReturn(t)

SpecFree == Init /\ [][NextFree]_vars

\* ------------------------------------------------------------------------
\* LimitOperator
\* ------------------------------------------------------------------------
\* metadata.num_rows of a BlockMetadata that carries no row count (None)
NoRows == -1
\* num_outputs_total() of an operator that does not know its output count
Unknown == -1

Min(a, b) == IF a <= b THEN a ELSE b

RECURSIVE SumRows(_)
\* total of num_rows over a list of BlockMetadata
SumRows(metas) ==
    IF Len(metas) = 0 THEN 0
    ELSE metas[1].num_rows + SumRows(Tail(metas))

RECURSIVE Flatten(_)
\* the (block, metadata) pairs of a list of bundles, in order
Flatten(bundles) ==
    IF Len(bundles) = 0 THEN <<>>
    ELSE bundles[1].blocks \o Flatten(Tail(bundles))

\* BlockAccessor.size_bytes() of a block
SizeBytes(b) == b.rows + b.rows

\* An input block of the upstream operator and its metadata.
InputPair(id, rows, has_rows) ==
    [block |-> [id |-> id, rows |-> rows, sliced |-> FALSE],
     meta |-> [num_rows |-> IF has_rows THEN rows ELSE NoRows,
               size_bytes |-> rows + rows]]

\* slice_fn that leaves num_rows of the copied metadata as it was.
slice_fn_stale_rows(pair, num_rows) ==
    LET b == [id |-> pair.block.id,
              rows |-> Min(num_rows, pair.block.rows),
              sliced |-> TRUE]
    IN [block |-> b,
        meta |-> [num_rows |-> pair.meta.num_rows, size_bytes |-> SizeBytes(b)]]

\* slice_fn(block, metadata, num_rows)
slice_fn(pair, num_rows) ==
    LET b == [id |-> pair.block.id,
              rows |-> Min(num_rows, pair.block.rows),
              sliced |-> TRUE]
    IN [block |-> b,
        meta |-> [num_rows |-> num_rows, size_bytes |-> SizeBytes(b)]]

\* LimitOperator.__init__(limit, input_op)
InitLimit ==
    /\ limit \in 0 .. MaxLimit
    /\ consumed_rows = 0
    /\ buffer = <<>>
    /\ output_metadata = <<>>
    /\ \E est \in {Unknown, UpstreamEstimate} :
           num_outputs_total_init = IF est # Unknown THEN Min(est, limit) ELSE Unknown
    /\ inputs = <<>>
    /\ emitted = <<>>
    /\ returned = <<>>
    /\ raised = "none"
    /\ InitCoord

\* LimitOperator._limit_reached
limit_reached == consumed_rows >= limit

\* LimitOperator.has_next
has_next == Len(buffer) > 0

\* num_outputs_total that reports 0 once the limit is reached.
num_outputs_total_zero == IF limit_reached THEN 0 ELSE num_outputs_total_init

\* LimitOperator.num_outputs_total
num_outputs_total == IF limit_reached THEN limit ELSE num_outputs_total_init

\* LimitOperator.get_stats (the list under the operator's name)
get_stats == output_metadata

RECURSIVE AddInputLoopSkipNoRows(_, _)
\* AddInputLoop that passes over a block without a row count.
AddInputLoopSkipNoRows(pairs, acc) ==
    IF Len(pairs) = 0 THEN acc
    ELSE LET pair == pairs[1]
             num_rows == pair.meta.num_rows
         IN IF num_rows = NoRows
            THEN AddInputLoopSkipNoRows(Tail(pairs), acc)
            ELSE IF acc.consumed + num_rows <= limit
            THEN AddInputLoopSkipNoRows(Tail(pairs),
                     [acc EXCEPT !.consumed = acc.consumed + num_rows,
                                 !.out = Append(acc.out, pair),
                                 !.log = Append(acc.log, pair.meta)])
            ELSE LET cut == slice_fn(pair, limit - acc.consumed)
                 IN [acc EXCEPT !.out = Append(acc.out, cut),
                                !.log = Append(acc.log, cut.meta)]

RECURSIVE AddInputLoopStrict(_, _)
\* AddInputLoop that forwards a block unchanged only when it ends strictly
\* below the limit.
AddInputLoopStrict(pairs, acc) ==
    IF Len(pairs) = 0 THEN acc
    ELSE LET pair == pairs[1]
             num_rows == pair.meta.num_rows
         IN IF num_rows = NoRows
            THEN [acc EXCEPT !.failed = TRUE]
            ELSE IF acc.consumed + num_rows < limit
            THEN AddInputLoopStrict(Tail(pairs),
                     [acc EXCEPT !.consumed = acc.consumed + num_rows,
                                 !.out = Append(acc.out, pair),
                                 !.log = Append(acc.log, pair.meta)])
            ELSE LET cut == slice_fn(pair, limit - acc.consumed)
                 IN [acc EXCEPT !.out = Append(acc.out, cut),
                                !.log = Append(acc.log, cut.meta)]

RECURSIVE AddInputLoop(_, _)
\* The for loop of add_input over pairs, from the state acc = [consumed,
\* out, log, failed]; failed is set when the row-count assertion fails.
AddInputLoop(pairs, acc) ==
    IF Len(pairs) = 0 THEN acc
    ELSE LET pair == pairs[1]
             num_rows == pair.meta.num_rows
         IN IF num_rows = NoRows
            THEN [acc EXCEPT !.failed = TRUE]
            ELSE IF acc.consumed + num_rows <= limit
            THEN AddInputLoop(Tail(pairs),
                     [acc EXCEPT !.consumed = acc.consumed + num_rows,
                                 !.out = Append(acc.out, pair),
                                 !.log = Append(acc.log, pair.meta)])
            ELSE LET cut == slice_fn(pair, limit - acc.consumed)
                 IN [acc EXCEPT !.out = Append(acc.out, cut),
                                !.log = Append(acc.log, cut.meta)]

\* AddInput that builds the output bundle without passing on owns_blocks.
AddInputNotOwned(refs) ==
    /\ raised # "AssertionError"
    /\ inputs' = Append(inputs, refs)
    /\ IF limit_reached
       THEN /\ raised' = "none"
            /\ UNCHANGED <<consumed_rows, buffer, output_metadata, emitted>>
       ELSE LET acc == AddInputLoop(refs.blocks,
                           [consumed |-> consumed_rows, out |-> <<>>,
                            log |-> output_metadata, failed |-> FALSE])
                out_refs == [blocks |-> acc.out, owns_blocks |-> FALSE]
            IN /\ consumed_rows' = acc.consumed
               /\ output_metadata' = acc.log
               /\ IF acc.failed
                  THEN /\ raised' = "AssertionError"
                       /\ UNCHANGED <<buffer, emitted>>
                  ELSE /\ raised' = "none"
                       /\ buffer' = Append(buffer, out_refs)
                       /\ emitted' = Append(emitted, out_refs)
    /\ UNCHANGED <<limit, num_outputs_total_init, returned>>
    /\ UNCHANGED <<coordVars, lock, bundle_blocks, threadVars, clientVars>>

\* LimitOperator.add_input(refs, 0)
AddInput(refs) ==
    /\ raised # "AssertionError"
    /\ inputs' = Append(inputs, refs)
    /\ IF limit_reached
       THEN /\ raised' = "none"
            /\ UNCHANGED <<consumed_rows, buffer, output_metadata, emitted>>
       ELSE LET acc == AddInputLoop(refs.blocks,
                           [consumed |-> consumed_rows, out |-> <<>>,
                            log |-> output_metadata, failed |-> FALSE])
                out_refs == [blocks |-> acc.out, owns_blocks |-> refs.owns_blocks]
            IN /\ consumed_rows' = acc.consumed
               /\ output_metadata' = acc.log
               /\ IF acc.failed
                  THEN /\ raised' = "AssertionError"
                       /\ UNCHANGED <<buffer, emitted>>
                  ELSE /\ raised' = "none"
                       /\ buffer' = Append(buffer, out_refs)
                       /\ emitted' = Append(emitted, out_refs)
    /\ UNCHANGED <<limit, num_outputs_total_init, returned>>
    /\ UNCHANGED <<coordVars, lock, bundle_blocks, threadVars, clientVars>>

\* GetNext that takes the bundle from the right end of the deque.
GetNextLast ==
    /\ raised # "AssertionError"
    /\ IF has_next
       THEN /\ returned' = Append(returned, buffer[Len(buffer)])
            /\ buffer' = SubSeq(buffer, 1, Len(buffer) - 1)
            /\ raised' = "none"
       ELSE /\ raised' = "IndexError"
            /\ UNCHANGED <<buffer, returned>>
    /\ UNCHANGED <<limit, consumed_rows, output_metadata,
                   num_outputs_total_init, inputs, emitted>>
    /\ UNCHANGED <<coordVars, lock, bundle_blocks, threadVars, clientVars>>

\* LimitOperator.get_next: self._buffer.popleft()
GetNext ==
    /\ raised # "AssertionError"
    /\ IF has_next
       THEN /\ returned' = Append(returned, Head(buffer))
            /\ buffer' = Tail(buffer)
            /\ raised' = "none"
       ELSE /\ raised' = "IndexError"
            /\ UNCHANGED <<buffer, returned>>
    /\ UNCHANGED <<limit, consumed_rows, output_metadata,
                   num_outputs_total_init, inputs, emitted>>
    /\ UNCHANGED <<coordVars, lock, bundle_blocks, threadVars, clientVars>>

\* Number of blocks the upstream operator has passed in so far.
NumInputBlocks == Len(Flatten(inputs))

\* A bundle upstream may pass next: n blocks, numbered in arrival order;
\* when no_rows is set its last block comes without a row count (blocks
\* behind such a block are never inspected); such a block is taken to hold
\* MaxRows rows.
InputBundle(n, rows, no_rows, owns) ==
    [blocks |-> [k \in 1 .. n |->
                    InputPair(NumInputBlocks + k, rows[k], ~(no_rows /\ k = n))],
     owns_blocks |-> owns]

NextLimit ==
    \/ \E n \in 1 .. (MaxInputBlocks - NumInputBlocks) :
           \E rows \in [1 .. n -> 0 .. MaxRows], no_rows \in BOOLEAN,
              owns \in BOOLEAN :
               /\ no_rows => rows[n] = MaxRows
               /\ AddInput(InputBundle(n, rows, no_rows, owns))
    \/ GetNext

SpecLimit == InitLimit /\ [][NextLimit]_vars

\* ========================================================================
\* Properties
\* ========================================================================
\* The set of elements of a sequence.
Range(f) == {f[k] : k \in DOMAIN f}

\* Client c has decremented the arrival counter for the transition out of
\* epoch e (or has already been handed a later epoch).
Arrived(c, e) ==
    \/ /\ op[c] = "start_epoch"
       /\ pc[c] \notin {"idle", "b_lock1", "b_arrive"}
       /\ starting_epoch[c] = e
    \/ gen_epoch[c] > e

\* Thread t has a finished start_epoch call whose result is not yet consumed.
StartEpochReturned(t) == pc[t] = "ret" /\ op[t] = "start_epoch"

\* Some thread is between the epoch increment and the runner construction.
Advancing(t) == pc[t] \in {"b_reset", "b_next_epoch"}

\* The generator of client c has ended its pass over an epoch.
PassEnded(c) == pc[c] = "idle" /\ gen_epoch[c] >= 0

\* C1: in every interleaving of N clients that follow gen_blocks, the blocks
\* a client has received in its pass are distinct blocks of its own index
\* and epoch that the runner has produced, and when its pass has ended they
\* are exactly the blocks the runner produced for its index in that epoch.
C1_ExactlyOnce ==
    \A c \in Indices :
        /\ Cardinality(Range(received[c])) = Len(received[c])
        /\ \A b \in Range(received[c]) :
               /\ b[1] = gen_epoch[c]
               /\ b[2] = c
               /\ output_iterator.epoch = gen_epoch[c]
               /\ b \in Range(Assigned(output_iterator, c))
        /\ PassEnded(c) =>
               /\ output_iterator.epoch = gen_epoch[c]
               /\ Range(received[c]) = Range(Assigned(output_iterator, c))

\* Both clients have ended a pass in which each received at least two blocks.
C1_Witness ==
    \A c \in Indices : PassEnded(c) /\ Len(received[c]) >= 2

\* C2: successive get calls of one index return the blocks in the order in
\* which the splitter assigned them, whatever the shape of the bundles.
C2_AssignmentOrder ==
    \A c \in Indices :
        \A j, k \in DOMAIN received[c] :
            j < k => received[c][j][3] < received[c][k][3]

\* C3: no start_epoch call for the transition out of epoch e returns before
\* all N clients have arrived at the barrier for that transition.
C3_NoEarlyReturn ==
    \A t \in Threads :
        StartEpochReturned(t) =>
            \A c \in Indices : Arrived(c, starting_epoch[t])

\* A start_epoch call of the second round has returned.
C3_Witness ==
    \E t \in Threads : StartEpochReturned(t) /\ starting_epoch[t] = 0

\* C4: a get whose epoch_id differs from the current epoch fails with the
\* invalid-epoch error, returns no block and leaves the leftover map, the
\* arrival counter, the epoch id and the runner unchanged.
C4_StaleGetRejected ==
    [][\A t \in Threads :
          (pc[t] = "g_check" /\ pc'[t] # "g_check" /\ epoch_id[t] # cur_epoch)
          => /\ pc'[t] = "ret"
             /\ ret'[t] = ErrorResult("InvalidEpoch")
             /\ UNCHANGED <<coordVars, bundle_blocks, lock>>]_vars

\* A get that presented an earlier epoch was rejected while the leftover map
\* still holds a bundle of that earlier epoch for the caller's index.
C4_Witness ==
    \E t \in Threads :
        /\ pc[t] = "ret"
        /\ op[t] = "get"
        /\ ret[t] = ErrorResult("InvalidEpoch")
        /\ split_idx[t] \in DOMAIN next_bundle
        /\ next_bundle[split_idx[t]][1] = epoch_id[t]
        /\ epoch_id[t] < cur_epoch
        /\ Len(bundle_blocks[next_bundle[split_idx[t]]]) > 0

C6_LazyRunner ==
    /\ cur_epoch = -1 => (~output_iterator.exists /\ epochs_built = 0)
    /\ output_iterator.exists =>
           /\ epochs_built = output_iterator.epoch + 1
           /\ \A c \in Indices : Arrived(c, output_iterator.epoch - 1)
    /\ \A t \in Threads :
           Advancing(t) => \A c \in Indices : Arrived(c, starting_epoch[t])

\* A caller is about to build the runner of the second epoch.
C6_Witness ==
    \E t \in Threads : pc[t] = "b_next_epoch" /\ cur_epoch = 1

\* C7: every start_epoch call returns the epoch that was current when it
\* arrived plus one, which is the coordinator's current epoch, and all calls
\* of one round return the same value.
C7_SameEpochReturned ==
    \A t \in Threads :
        StartEpochReturned(t) =>
            /\ ret[t].kind = "epoch"
            /\ ret[t].epoch = starting_epoch[t] + 1
            /\ ret[t].epoch = cur_epoch
            /\ \A u \in Threads : StartEpochReturned(u) => ret[u] = ret[t]
            /\ \A c \in Indices : gen_epoch[c] <= ret[t].epoch

\* A call returns the new epoch after the other client of the round has
\* already started reading it.
C7_Witness ==
    \E t, u \in Threads :
        /\ StartEpochReturned(t)
        /\ ret[t].epoch = 1
        /\ op[u] = "get"
        /\ gen_epoch[u] = 1

\* Total number of rows of the blocks forwarded so far.
RECURSIVE BlockRows(_)
BlockRows(pairs) ==
    IF Len(pairs) = 0 THEN 0
    ELSE pairs[1].block.rows + BlockRows(Tail(pairs))

Forwarded == Flatten(emitted)
ForwardedRows == SumRows([k \in DOMAIN Forwarded |-> Forwarded[k].meta])
InputRows == BlockRows(Flatten(inputs))

\* C8: the sum of num_rows over all forwarded blocks equals
\* min(limit, total input rows), for any sequence of add_input calls.
C8_RowLimitExact ==
    raised # "AssertionError" => ForwardedRows = Min(limit, InputRows)

\* C9: at most one forwarded block is a sliced block, and every other
\* forwarded block is the unchanged input block.
C9_SingleSlice ==
    /\ Cardinality({k \in DOMAIN Forwarded : Forwarded[k].block.sliced}) <= 1
    /\ \A k \in DOMAIN Forwarded :
           ~Forwarded[k].block.sliced =>
               Forwarded[k] \in Range(Flatten(inputs))

\* C10: once the forwarded rows equal the limit, a later add_input call
\* raises nothing, enqueues no bundle, forwards no block and changes neither
\* consumed_rows nor the metadata log.
C10_PostLimitSilence ==
    [][(ForwardedRows = limit /\ inputs' # inputs)
       => /\ raised' = "none"
          /\ UNCHANGED <<consumed_rows, buffer, output_metadata, emitted>>]_vars

\* Rows forwarded ahead of position k of the forwarded blocks.
RowsBefore(k) ==
    SumRows([j \in 1 .. (k - 1) |-> Forwarded[j].meta])

\* C11: the first block that would exceed the limit is forwarded sliced to
\* exactly limit - consumed_rows rows, consumed_rows becomes limit, and no
\* block is forwarded behind the sliced one, neither from the rest of that
\* bundle nor from a later bundle (limit 7, three 3-row blocks: 3, 6, 7).
C11_SliceReachesLimit ==
    \A k \in DOMAIN Forwarded :
        Forwarded[k].block.sliced =>
            /\ Forwarded[k].meta.num_rows = limit - RowsBefore(k)
            /\ Forwarded[k].block.rows = limit - RowsBefore(k)
            /\ consumed_rows = limit
            /\ k = Len(Forwarded)

\* C12: num_outputs_total() is limit whenever the forwarded rows equal the
\* limit, and otherwise the estimate fixed at construction, which is
\* min(upstream estimate, limit) or unknown.
C12_NumOutputsTotal ==
    raised # "AssertionError" =>
        /\ num_outputs_total_init \in {Unknown, Min(UpstreamEstimate, limit)}
        /\ num_outputs_total = IF ForwardedRows = limit
                               THEN limit ELSE num_outputs_total_init

\* Positions of a call at which its thread is inside a with self._lock block.
InsideLock == {"b_arrive", "b_check", "b_reset", "b_next_epoch",
               "g_peek", "g_store"}

\* C13: the lock is held only inside the short critical sections and never
\* by a thread that is pulling from the runner (nor while it pops the block
\* or waits for the lock again), so the lock stays available to the gets of
\* other indices for the whole duration of a pull.
C13_PullOutsideLock ==
    \A t \in Threads :
        /\ lock = t => pc[t] \in InsideLock
        /\ pc[t] \in {"g_pull", "g_pop", "g_lock2"} => lock # t

\* While one get is in its pull, a get for another index holds the lock and
\* is about to write back the bundle it took from its leftover entry.
C13_Witness ==
    \E t, u \in Threads :
        /\ pc[t] = "g_pull"
        /\ pc[u] = "g_store"
        /\ lock = u
        /\ split_idx[u] # split_idx[t]
        /\ split_idx[u] \in DOMAIN next_bundle
        /\ next_bundle[split_idx[u]] = local_bundle[u]

\* The epoch the clients are reading: the epoch of the latest runner built
\* (-1 before the first one).
RunningEpoch == epochs_built - 1

\* The clients that have arrived at the barrier that ends epoch e.
ArrivedSet(e) == {c \in Indices : Arrived(c, e)}

\* Fewer than N clients have arrived at the barrier that ends the running
\* epoch.
BarrierOpen == Cardinality(ArrivedSet(RunningEpoch)) < N

\* C14: while fewer than N clients have arrived at the barrier, every
\* start_epoch call that has arrived is still in the polling loop (none has
\* failed or returned), the epoch id and the runner do not change, and
\* the gets of the clients still reading carry the current epoch id, pass
\* the epoch check, never fail and return only blocks of their own index
\* and of the current epoch.
C14_StallDelaysOnly ==
    /\ [](BarrierOpen =>
            /\ cur_epoch = RunningEpoch
            /\ \A c \in ArrivedSet(RunningEpoch) :
                   /\ op[c] = "start_epoch"
                   /\ pc[c] \in {"b_poll", "b_poll_count"}
            /\ \A c \in Indices \ ArrivedSet(RunningEpoch) :
                   op[c] = "get" =>
                       /\ epoch_id[c] = cur_epoch
                       /\ ret[c].kind \in {"pending", "block", "nothing"}
                       /\ ret[c].kind = "block" =>
                              /\ ret[c].block[1] = cur_epoch
                              /\ ret[c].block[2] = c
                       /\ \A b \in Range(received[c]) :
                              b[1] = cur_epoch /\ b[2] = c)
    /\ [][BarrierOpen =>
            /\ cur_epoch' = cur_epoch
            /\ epochs_built' = epochs_built
            /\ output_iterator'.exists = output_iterator.exists
            /\ output_iterator'.epoch = output_iterator.epoch]_vars

\* One client waits in the polling loop of the barrier that ends epoch 0
\* while the other, still reading epoch 0, has been handed a further block.
C14_Witness ==
    \E t, u \in Threads :
        /\ op[t] = "start_epoch"
        /\ pc[t] \in {"b_poll", "b_poll_count"}
        /\ starting_epoch[t] = 0
        /\ cur_epoch = 0
        /\ op[u] = "get"
        /\ pc[u] = "ret"
        /\ ret[u].kind = "block"
        /\ Len(received[u]) >= 1

\* C15: a get leaves its pull without a bundle either with nothing, and then
\* the runner has signalled exhaustion for that index, or with the failure
\* the pull raised; in the second case the call ends at once (no retry) and
\* the leftover map, the epoch id, the arrival counter, the runner, the lock
\* and the bundles held for other indices are as they were.
C15_PullFailurePropagates ==
    [][\A t \in Threads :
          (pc[t] = "g_pull" /\ pc'[t] # "g_pull" /\ local_bundle'[t] = NoBundle)
          => /\ pc'[t] = "ret"
             /\ ret'[t].kind \in {"nothing", "PipelineError", "AttributeError"}
             /\ ret'[t].kind = "nothing" =>
                    /\ output_iterator.exists
                    /\ output_iterator'.exhausted[split_idx[t]]
             /\ ret'[t].kind = "PipelineError" =>
                    /\ output_iterator.exists
                    /\ lock # t
                    /\ UNCHANGED <<coordVars, lock, bundle_blocks>>]_vars

\* A get for one index has failed with the pipeline's failure while the
\* leftover map holds a bundle of another index, and a get for that other
\* index is writing back under the lock.
C15_Witness ==
    \E t, u \in Threads :
        /\ pc[t] = "ret"
        /\ ret[t] = ErrorResult("PipelineError")
        /\ split_idx[u] # split_idx[t]
        /\ split_idx[u] \in DOMAIN next_bundle
        /\ pc[u] = "g_store"
        /\ lock = u

\* Client c issues a call of the named kind in this step.
IssuesStartEpoch(c) == pc[c] # "b_lock1" /\ pc'[c] = "b_lock1"
IssuesGet(c) == pc[c] # "g_check" /\ pc'[c] = "g_check"

\* C16: a client issues start_epoch only when it has no call outstanding and
\* no pass open, so once per pass; it issues a get only when its previous
\* call has returned (one outstanding call at most), the first get of a pass
\* on the epoch id its start_epoch returned and each further get on a
\* returned block, always with that same epoch id and its own index; after a
\* get has returned nothing the pass is over without a further get.
C16_ClientLifecycle ==
    /\ [](\A c \in Indices :
            /\ op[c] # "none" => split_idx[c] = c
            /\ op[c] = "get" => epoch_id[c] = gen_epoch[c])
    /\ [][\A c \in Indices :
            /\ IssuesStartEpoch(c) => pc[c] = "idle" /\ op[c] = "none"
            /\ IssuesGet(c) =>
                   /\ pc[c] = "ret"
                   /\ ret[c].kind \in {"epoch", "block"}
                   /\ (op[c] = "start_epoch") = (ret[c].kind = "epoch")
                   /\ ret[c].kind = "epoch" =>
                          /\ gen_epoch'[c] = ret[c].epoch
                          /\ epoch_id'[c] = ret[c].epoch
                   /\ ret[c].kind = "block" =>
                          /\ gen_epoch'[c] = gen_epoch[c]
                          /\ epoch_id'[c] = gen_epoch[c]
                   /\ split_idx'[c] = c
            /\ (pc[c] = "ret" /\ ret[c].kind = "nothing" /\ pc'[c] # "ret")
                   => pc'[c] = "idle" /\ op'[c] = "none"]_vars

\* A client that has ended its pass over epoch 0 issues a further get of its
\* pass over epoch 1.
C16_Witness ==
    \E c \in Indices :
        /\ gen_epoch[c] = 1
        /\ op[c] = "get"
        /\ pc[c] = "g_check"
        /\ Len(received[c]) >= 1

\* C17: the epoch id is -1 at the start and every step that changes it adds
\* exactly one; the step is taken by a start_epoch call that holds the lock
\* in the second critical section of the barrier, started from the current
\* epoch and finds the arrival counter at zero; no step of a get, of an
\* arriving or polling start_epoch or of a caller changes it.
C17_EpochMonotone ==
    /\ cur_epoch = -1
    /\ [][cur_epoch' # cur_epoch =>
            /\ cur_epoch' = cur_epoch + 1
            /\ unfinished_clients_in_epoch = 0
            /\ \E t \in Threads :
                   /\ op[t] = "start_epoch"
                   /\ pc[t] = "b_check"
                   /\ pc'[t] = "b_reset"
                   /\ lock = t
                   /\ starting_epoch[t] = cur_epoch
                   /\ \A u \in Threads \ {t} :
                          /\ pc'[u] = pc[u]
                          /\ op[u] = "start_epoch"
                          /\ starting_epoch[u] = cur_epoch]_vars

\* The second barrier has just been won: the epoch id has moved from 0 to 1
\* and the counter is not yet reset, while the leftover map still holds a
\* bundle.
C17_Witness ==
    /\ cur_epoch = 1
    /\ unfinished_clients_in_epoch = 0
    /\ \E t \in Threads : pc[t] = "b_reset"
    /\ DOMAIN next_bundle # {}

\* The start_epoch calls that have decremented the arrival counter for the
\* barrier that ends epoch e.
ArrivedCalls(e) ==
    {t \in Threads : /\ op[t] = "start_epoch"
                     /\ pc[t] \notin {"idle", "b_lock1", "b_arrive"}
                     /\ starting_epoch[t] = e}

\* Every change of the arrival counter is a decrement by one made by an
\* arriving start_epoch call under the lock, or the reset to N made by the
\* call that has just incremented the epoch id, before it releases the lock.
CounterSteps ==
    unfinished_clients_in_epoch' # unfinished_clients_in_epoch =>
        \E t \in Threads :
            /\ lock = t
            /\ op[t] = "start_epoch"
            /\ \/ /\ pc[t] = "b_arrive"
                  /\ unfinished_clients_in_epoch' = unfinished_clients_in_epoch - 1
               \/ /\ pc[t] = "b_reset"
                  /\ unfinished_clients_in_epoch' = N
                  /\ cur_epoch = starting_epoch[t] + 1
                  /\ lock' = t

C19_FifoOutput ==
    /\ [](/\ returned \o buffer = emitted
          /\ has_next = (Len(returned) < Len(emitted)))
    /\ [][inputs' = inputs =>
            IF has_next
            THEN /\ returned' = Append(returned, emitted[Len(returned) + 1])
                 /\ raised' = "none"
            ELSE /\ raised' = "IndexError"
                 /\ UNCHANGED <<returned, buffer>>]_vars

\* Two different bundles have been returned and a third, different again,
\* is still waiting in the buffer.
C19_Witness ==
    /\ Len(returned) = 2
    /\ returned[1] # returned[2]
    /\ Len(buffer) = 1
    /\ buffer[1] # returned[2]

\* The bundle passed by the add_input call of this step.
NewInput == inputs'[Len(inputs')]

\* The loop of add_input reaches block k of the new bundle: the limit is
\* not reached when the call starts and the blocks ahead of k all fit.
Inspects(k) ==
    /\ ~limit_reached
    /\ \A j \in 1 .. (k - 1) : NewInput.blocks[j].meta.num_rows # NoRows
    /\ consumed_rows
           + SumRows([j \in 1 .. (k - 1) |-> NewInput.blocks[j].meta]) <= limit

\* C20: an add_input call whose loop reaches a block whose metadata has no
\* row count raises the assertion failure to its caller and enqueues
\* nothing.
C20_MissingRowCountFatal ==
    [][inputs' # inputs =>
          \A k \in DOMAIN NewInput.blocks :
              (NewInput.blocks[k].meta.num_rows = NoRows /\ Inspects(k))
              => /\ raised' = "AssertionError"
                 /\ UNCHANGED <<buffer, emitted>>]_vars

\* add_input has failed on the second block of a bundle, after it had
\* counted the rows of the first, and an earlier bundle went through.
C20_Witness ==
    /\ raised = "AssertionError"
    /\ Len(inputs) = 2
    /\ Len(emitted) = 1
    /\ Len(inputs[2].blocks) = 2
    /\ inputs[2].blocks[2].meta.num_rows = NoRows
    /\ consumed_rows > ForwardedRows

\* C21: over a runner whose bundles hold one block each, the blocks a client
\* has been handed in its pass are, in order, the first bundles the runner
\* produced for its index in that epoch, all of them once the pass has
\* ended, and the leftover map is empty in every state.
C21_SingleBlockOrder ==
    /\ next_bundle = <<>>
    /\ \A c \in Indices :
           /\ Len(received[c]) > 0 =>
                  /\ output_iterator.epoch = gen_epoch[c]
                  /\ Len(received[c]) <= output_iterator.produced[c]
                  /\ received[c] = SubSeq(Assigned(output_iterator, c),
                                          1, Len(received[c]))
           /\ PassEnded(c) =>
                  /\ output_iterator.epoch = gen_epoch[c]
                  /\ received[c] = Assigned(output_iterator, c)

\* A client has ended a pass over epoch 1 in which it was handed every
\* single-block bundle the bounds allow.
C21_Witness ==
    \E c \in Indices :
        /\ PassEnded(c)
        /\ gen_epoch[c] = 1
        /\ Len(received[c]) = MaxBlocksPerIndex

\* The blocks left in the bundle that the leftover map holds for index i.
LeftoverBlocks(i) == bundle_blocks[next_bundle[i]]

\* A successful get takes exactly one block out of the bundle it obtained.
PopsOne ==
    \A t \in Threads :
        (pc[t] = "g_pop" /\ pc'[t] = "g_lock2") =>
            /\ Len(bundle_blocks'[local_bundle[t]])
                   = Len(bundle_blocks[local_bundle[t]]) - 1
            /\ block'[t] \in Range(bundle_blocks[local_bundle[t]])
            /\ block'[t] \notin Range(bundle_blocks'[local_bundle[t]])

\* When a successful get leaves its second critical section the map holds
\* the rest of the bundle at the call's index if blocks remain and has no
\* entry for that index otherwise.
StoresRest ==
    \A t \in Threads :
        (pc[t] = "g_store" /\ pc'[t] = "ret") =>
            LET i == split_idx[t]
                rest == bundle_blocks[local_bundle[t]]
            IN IF Len(rest) > 0
               THEN /\ i \in DOMAIN next_bundle'
                    /\ next_bundle'[i] = local_bundle[t]
                    /\ bundle_blocks'[next_bundle'[i]] = rest
               ELSE i \notin DOMAIN next_bundle'

\* C22: a successful get removes exactly one block from the bundle it
\* obtained and then leaves the rest in the map at its index, or no entry
\* when nothing remains, so that whenever the lock is free no entry of the
\* leftover map is an empty bundle.
C22_LeftoverNeverEmpty ==
    /\ [](lock = -1 =>
              \A i \in DOMAIN next_bundle : Len(LeftoverBlocks(i)) > 0)
    /\ [][PopsOne]_vars
    /\ [][StoresRest]_vars

\* The leftover entry of index j is the same before and after the step:
\* present or absent as before, the same bundle, with the same blocks.
EntryUntouched(j) ==
    /\ (j \in DOMAIN next_bundle') = (j \in DOMAIN next_bundle)
    /\ j \in DOMAIN next_bundle =>
           /\ next_bundle'[j] = next_bundle[j]
           /\ bundle_blocks'[next_bundle[j]] = bundle_blocks[next_bundle[j]]

\* C23: no step of a get(e, i) call, from its epoch check to its return and
\* whatever its outcome, touches the leftover entry of an index other than
\* i, the epoch id, the arrival counter or the reference to the runner.
C23_GetFrame ==
    [][\A t \in Threads :
          (op[t] = "get" /\ pc'[t] # pc[t]) =>
              /\ \A j \in Indices \ {split_idx[t]} : EntryUntouched(j)
              /\ UNCHANGED <<cur_epoch, unfinished_clients_in_epoch,
                             epochs_built>>
              /\ output_iterator'.exists = output_iterator.exists
              /\ output_iterator'.epoch = output_iterator.epoch]_vars

\* A get has returned the last block of its bundle and its entry is gone,
\* while the map still holds the entry of another index.
C23_Witness ==
    \E t \in Threads :
        /\ op[t] = "get"
        /\ pc[t] = "ret"
        /\ ret[t].kind = "block"
        /\ split_idx[t] \notin DOMAIN next_bundle
        /\ \E j \in DOMAIN next_bundle :
               j # split_idx[t] /\ Len(LeftoverBlocks(j)) > 0

\* Blocks of index i and of the current epoch that the coordinator holds in
\* some bundle and has not handed out.
Undelivered(i) ==
    {b \in DOMAIN bundle_blocks :
        b[1] = cur_epoch /\ b[2] = i /\ Len(bundle_blocks[b]) > 0}

LeftoverWritten ==
    \/ next_bundle' # next_bundle
    \/ \E i \in DOMAIN next_bundle :
           /\ i \in DOMAIN next_bundle'
           /\ bundle_blocks'[next_bundle'[i]] # LeftoverBlocks(i)

\* The thread that takes the step holds the lock.
StepUnderLock == \E t \in Threads : lock = t /\ pc'[t] # pc[t]

\* C25: a thread is inside a critical section only while it holds the lock,
\* so at most one thread is inside one at a time, and every step that writes
\* the leftover map (creates, shrinks or deletes an entry), the arrival
\* counter or the epoch id is taken by the thread that holds the lock.
C25_WritesUnderLock ==
    /\ [](/\ \A t \in Threads : pc[t] \in InsideLock => lock = t
          /\ Cardinality({t \in Threads : pc[t] \in InsideLock}) <= 1)
    /\ [][(\/ cur_epoch' # cur_epoch
           \/ unfinished_clients_in_epoch' # unfinished_clients_in_epoch)
          => StepUnderLock]_vars
    /\ [][LeftoverWritten => StepUnderLock]_vars

\* Positions of a get call behind its epoch check.
PastEpochCheck == {"g_lock1", "g_peek", "g_pull", "g_pop", "g_lock2",
                   "g_store"}

\* C26: the runner reference changes only in the step of the start_epoch
\* call that has just incremented the epoch id and still holds the lock;
\* while a get is behind its epoch check for e the epoch id is e, no call
\* is replacing the runner and the runner, if there is one, is the one built
\* for e; so every bundle a get pulls comes from the runner of the epoch id
\* the get presented.
C26_RunnerOfPresentedEpoch ==
    /\ [][(\/ output_iterator'.exists # output_iterator.exists
           \/ output_iterator'.epoch # output_iterator.epoch
           \/ epochs_built' # epochs_built)
          => \E t \in Threads :
                 /\ op[t] = "start_epoch"
                 /\ pc[t] = "b_next_epoch"
                 /\ lock = t
                 /\ cur_epoch = starting_epoch[t] + 1
                 /\ output_iterator'.exists
                 /\ output_iterator'.epoch = cur_epoch]_vars
    /\ [](\A t \in Threads :
              (op[t] = "get" /\ pc[t] \in PastEpochCheck) =>
                  /\ cur_epoch = epoch_id[t]
                  /\ \A u \in Threads : ~Advancing(u)
                  /\ output_iterator.exists =>
                         output_iterator.epoch = epoch_id[t])
    /\ [][\A t \in Threads :
            (pc[t] = "g_pull" /\ pc'[t] = "g_pop") =>
                /\ output_iterator.epoch = epoch_id[t]
                /\ local_bundle'[t][1] = epoch_id[t]]_vars

\* A get that presented epoch 1 has pulled a bundle from the runner of
\* epoch 1, the second runner built.
C26_Witness ==
    \E t \in Threads :
        /\ op[t] = "get"
        /\ pc[t] = "g_pop"
        /\ epoch_id[t] = 1
        /\ epochs_built = 2
        /\ local_bundle[t][1] = 1
        /\ split_idx[t] \notin DOMAIN next_bundle

\* All N clients have arrived at the barrier that ends epoch e.
AllArrived(e) == \A c \in Indices : Arrived(c, e)

\* The start_epoch call of client c for the barrier that ends epoch e has
\* returned the new epoch id (and the client may have gone on since).
Returned(c, e) ==
    \/ gen_epoch[c] > e
    \/ /\ StartEpochReturned(c)
       /\ starting_epoch[c] = e
       /\ ret[c] = EpochResult(e + 1)

\* C27: when every actor thread that can run does run, once all N clients
\* have arrived at a barrier every one of their start_epoch calls returns,
\* also the call that reads the counter only after the winner has reset it.
C27_BarrierLiveness ==
    \A e \in -1 .. (MaxEpoch - 1) :
        AllArrived(e) ~> (\A c \in Indices : Returned(c, e))

\* A caller that found the epoch unchanged reads the counter only after the
\* winner has moved the epoch on and reset the counter to N.
C27_Witness ==
    \E t \in Threads :
        /\ pc[t] = "b_poll_count"
        /\ starting_epoch[t] = 0
        /\ cur_epoch = 1
        /\ unfinished_clients_in_epoch = N

\* C28: consumed_rows never decreases, lies between 0 and limit, and is the
\* total num_rows of the blocks forwarded so far.
C28_ConsumedRowsExact ==
    /\ [](raised # "AssertionError" =>
              /\ 0 <= consumed_rows
              /\ consumed_rows <= limit
              /\ consumed_rows = ForwardedRows)
    /\ [][consumed_rows' >= consumed_rows]_vars

\* The concatenation of all input blocks in arrival order.
AllInputs == Flatten(inputs)

\* C29: the forwarded blocks, read across the output bundles in the order
\* they were enqueued, are the first input blocks in arrival order, each the
\* unchanged input block except that the last may be that input block cut
\* short; so nothing is reordered, duplicated or forwarded behind a dropped
\* block.
C29_ForwardedIsPrefix ==
    raised # "AssertionError" =>
        /\ Len(Forwarded) <= Len(AllInputs)
        /\ \A k \in DOMAIN Forwarded :
               /\ Forwarded[k].block.id = AllInputs[k].block.id
               /\ k < Len(Forwarded) => Forwarded[k] = AllInputs[k]
               /\ \/ Forwarded[k] = AllInputs[k]
                  \/ /\ Forwarded[k].block.sliced
                     /\ Forwarded[k].block.rows < AllInputs[k].block.rows

\* The metadata of a sequence of (block, metadata) pairs.
MetaOf(pairs) == [k \in DOMAIN pairs |-> pairs[k].meta]

\* The bundle the add_input call of this step has pushed.
NewOutput == buffer'[Len(buffer')]

C31_MetadataMatchesBlock ==
    /\ [](LET fwd == Forwarded
              all == AllInputs
          IN /\ \A k \in DOMAIN fwd :
                    /\ fwd[k].meta.num_rows = fwd[k].block.rows
                    /\ fwd[k].meta.size_bytes = SizeBytes(fwd[k].block)
                    /\ fwd[k].block.sliced =>
                           /\ fwd[k].meta # all[fwd[k].block.id].meta
                           /\ ~all[fwd[k].block.id].block.sliced
             /\ \A k \in DOMAIN all :
                    all[k] = InputPair(k, all[k].block.rows,
                                       all[k].meta.num_rows # NoRows))
    /\ [][inputs' # inputs =>
            /\ Len(inputs') = Len(inputs) + 1
            /\ SubSeq(inputs', 1, Len(inputs)) = inputs]_vars

\* A 3-row block was forwarded cut to two rows behind a whole block, and a
\* later call went through.
C31_Witness ==
    /\ Len(inputs) = 3
    /\ raised = "none"
    /\ \E k \in DOMAIN Forwarded :
           /\ k >= 2
           /\ Forwarded[k].block.sliced
           /\ Forwarded[k].meta.num_rows = 2
           /\ AllInputs[Forwarded[k].block.id].meta.num_rows = 3

\* C32: for clients that follow gen_blocks, the epoch id a client holds
\* from its latest start_epoch is the coordinator's epoch id from the return
\* of that call until the client issues start_epoch again; so every get
\* presents the current epoch id, none ends with the invalid-epoch error,
\* and no get is running while a call moves the epoch id on and replaces
\* the runner.
C32_EpochHeldIsCurrent ==
    /\ [](\A c \in Indices :
              /\ (op[c] # "start_epoch" /\ gen_epoch[c] >= 0) =>
                     gen_epoch[c] = cur_epoch
              /\ StartEpochReturned(c) => ret[c].epoch = cur_epoch
              /\ op[c] = "get" => epoch_id[c] = cur_epoch
              /\ ret[c].kind # "InvalidEpoch")
    /\ []((\E t \in Threads : Advancing(t)) =>
              \A u \in Threads : op[u] = "start_epoch")
    /\ [][(\/ cur_epoch' # cur_epoch
           \/ output_iterator'.epoch # output_iterator.epoch)
          => \A u \in Threads : op[u] # "get" /\ op'[u] # "get"]_vars

\* One client waits at the barrier that ends epoch 0 while the other, with
\* blocks of epoch 0 in hand, has just passed the epoch check of a further
\* get.
C32_Witness ==
    \E c, d \in Indices :
        /\ op[d] = "start_epoch"
        /\ starting_epoch[d] = 0
        /\ pc[d] = "b_poll_count"
        /\ op[c] = "get"
        /\ pc[c] = "g_lock1"
        /\ gen_epoch[c] = 0
        /\ Len(received[c]) >= 1

\* C33: every block a get(e, i) returns is a block of the runner built for
\* epoch e, and the leftover map is empty at every step that moves the epoch
\* id on, also for clients that go back to start_epoch before the end of
\* their pass.
C33_NoStaleLeftover ==
    /\ [](\A t \in Threads :
              (op[t] = "get" /\ pc[t] = "ret" /\ ret[t].kind = "block") =>
                  ret[t].block[1] = epoch_id[t])
    /\ [][cur_epoch' # cur_epoch => next_bundle = <<>>]_vars

\* The output indices for which a start_epoch call has arrived at the
\* barrier that ends epoch e.
ArrivedIndices(e) == {split_idx[t] : t \in ArrivedCalls(e)}

\* C34: whatever start_epoch calls are made, also repeated or concurrent
\* calls with one split index, the epoch id moves on only when a call has
\* arrived for each of the N output indices, the arrival counter counts the
\* indices that have not arrived (one arrival per index) and it is never
\* negative.
C34_ArrivalsPerIndex ==
    /\ [](unfinished_clients_in_epoch >= 0)
    /\ []((\A t \in Threads : pc[t] # "b_reset") =>
              unfinished_clients_in_epoch
                  = N - Cardinality(ArrivedIndices(cur_epoch)))
    /\ [][cur_epoch' # cur_epoch => ArrivedIndices(cur_epoch) = Indices]_vars

\* C35: whenever a get of client c has returned a block, the next step of
\* the client appends that block to the blocks it has yielded in its pass,
\* so the yielded blocks are the blocks its gets took from the coordinator,
\* each once and in the order of the gets, also when the consumer stops
\* iterating while the prefetched get is outstanding.
C35_EveryTakenBlockYielded ==
    /\ [](\A c \in Indices :
              Cardinality(Range(received[c])) = Len(received[c]))
    /\ [][\A c \in Indices :
            (op[c] = "get" /\ pc[c] = "ret" /\ ret[c].kind = "block"
                 /\ pc'[c] # "ret")
            => received'[c] = Append(received[c], ret[c].block)]_vars

\* C36 as stated: in every reachable state the coordinator holds a runner
\* exactly when its epoch id is at least 0, and every caller that reaches
\* the assertion at the end of the barrier finds a runner.
C36_RunnerIffEpochStarted ==
    /\ output_iterator.exists = (cur_epoch >= 0)
    /\ \A t \in Threads :
           /\ pc[t] = "b_assert" => output_iterator.exists
           /\ ret[t].kind # "AssertionError"

\* C36 amended: the coordinator holds a runner exactly when its epoch id is
\* at least 0 in every state in which no call stands between the increment
\* of the epoch id and the construction of the runner; a call that stands
\* there holds the lock and the runner is still that of the epoch before
\* (none in the first transition); every caller reaches the assertion only
\* after the lock was released, finds a runner, and no start_epoch call
\* ends with the assertion failure.
C36_RunnerOutsideAdvance ==
    /\ (\A t \in Threads : ~Advancing(t)) =>
           /\ output_iterator.exists = (cur_epoch >= 0)
           /\ output_iterator.exists => output_iterator.epoch = cur_epoch
    /\ \A t \in Threads :
           /\ Advancing(t) =>
                  /\ lock = t
                  /\ output_iterator.exists = (cur_epoch >= 1)
                  /\ output_iterator.exists =>
                         output_iterator.epoch = cur_epoch - 1
                  /\ \A u \in Threads : pc[u] \notin {"b_assert", "g_pull"}
           /\ pc[t] = "b_assert" =>
                  /\ output_iterator.exists
                  /\ output_iterator.epoch = starting_epoch[t] + 1
           /\ ret[t].kind # "AssertionError"

\* In the first transition the winner has set the epoch id to 0 and not yet
\* built the runner, while another caller that has seen the new epoch id
\* waits for the lock.
C36_Witness ==
    \E t, u \in Threads :
        /\ pc[t] = "b_next_epoch"
        /\ cur_epoch = 0
        /\ ~output_iterator.exists
        /\ pc[u] = "b_lock2"
        /\ starting_epoch[u] = -1

\* C37: a get that makes its epoch check while no runner has been built
\* yet ends there with the invalid-epoch error, whatever epoch id it
\* presents, the initial -1 included; no get is at its pull while the
\* coordinator has no runner and none fails on the missing runner.
C37_GetBeforeFirstEpochRejected ==
    /\ [](\A t \in Threads :
              /\ pc[t] = "g_pull" => output_iterator.exists
              /\ ret[t].kind # "AttributeError")
    /\ [][\A t \in Threads :
            (pc[t] = "g_check" /\ pc'[t] # "g_check" /\ epochs_built = 0)
            => /\ pc'[t] = "ret"
               /\ ret'[t] = ErrorResult("InvalidEpoch")]_vars

\* C38: an add_input call that raises the row-count assertion failure
\* leaves consumed_rows, the output queue and the metadata log as they were
\* before the call, wherever in the bundle the block without a row count
\* stands.
C38_FailedAddInputNoEffect ==
    [][(inputs' # inputs /\ raised' = "AssertionError")
       => UNCHANGED <<consumed_rows, buffer, output_metadata, emitted>>]_vars

\* The input block that forwarded block k was taken or cut from.
SourceOf(k) == AllInputs[Forwarded[k].block.id]

\* C39 as stated: every sliced block that is forwarded has at least one row
\* and fewer rows than the block it was cut from.
C39_SliceNeverEmpty ==
    \A k \in DOMAIN Forwarded :
        Forwarded[k].block.sliced =>
            /\ Forwarded[k].block.rows >= 1
            /\ Forwarded[k].block.rows < SourceOf(k).block.rows

\* C39 amended: every sliced block that is forwarded has fewer rows than the
\* block it was cut from and may have none: a sliced block of zero rows is
\* forwarded when an earlier block of the same bundle has brought
\* consumed_rows to the limit exactly and a later block of that bundle has
\* rows; it is never the first block of its bundle and consumed_rows is the
\* limit from then on.
C39_SliceShorterMaybeEmpty ==
    /\ LET fwd == Forwarded
           all == AllInputs
       IN \A k \in DOMAIN fwd :
              fwd[k].block.sliced =>
                  /\ fwd[k].block.rows >= 0
                  /\ fwd[k].block.rows < all[fwd[k].block.id].block.rows
                  /\ fwd[k].block.rows = 0 =>
                         /\ k = Len(fwd)
                         /\ consumed_rows = limit
                         /\ limit > 0
    /\ \A j \in DOMAIN emitted :
           /\ Len(emitted[j].blocks) >= 1
           /\ emitted[j].blocks[1].block.sliced =>
                  emitted[j].blocks[1].block.rows >= 1
           /\ \A k \in DOMAIN emitted[j].blocks :
                  emitted[j].blocks[k].block.sliced =>
                      k = Len(emitted[j].blocks)

\* A bundle went out whose first block filled the limit exactly and whose
\* second block is a slice of zero rows, cut from a block that has rows.
C39_Witness ==
    \E j \in DOMAIN emitted :
        /\ Len(emitted[j].blocks) = 2
        /\ emitted[j].blocks[1].block.rows > 0
        /\ ~emitted[j].blocks[1].block.sliced
        /\ emitted[j].blocks[2].block.sliced
        /\ emitted[j].blocks[2].block.rows = 0
        /\ AllInputs[emitted[j].blocks[2].block.id].block.rows > 0

\* C40 as stated: once num_outputs_total() is known, no step makes it
\* larger.
C40_NumOutputsNeverIncreases ==
    [][num_outputs_total # Unknown =>
          num_outputs_total' <= num_outputs_total]_vars

\* C40 amended: num_outputs_total() changes at most once, in the step in
\* which the limit is reached, and then it becomes limit; the estimate it
\* replaces is unknown or min(upstream estimate, limit), so a known value
\* never decreases and rises when the upstream estimate is below the limit.
C40_NumOutputsRisesToLimit ==
    /\ [](/\ num_outputs_total_init \in {Unknown, Min(UpstreamEstimate, limit)}
          /\ num_outputs_total_init <= limit)
    /\ [][num_outputs_total # Unknown =>
            num_outputs_total' >= num_outputs_total]_vars
    /\ [][num_outputs_total' # num_outputs_total =>
            /\ ~limit_reached
            /\ limit_reached'
            /\ inputs' # inputs
            /\ num_outputs_total = num_outputs_total_init
            /\ num_outputs_total' = limit]_vars
    /\ [][limit_reached => limit_reached']_vars

\* The operator was built on a known upstream estimate below its limit, and
\* the input has since reached the limit: the reported total is the limit.
C40_Witness ==
    /\ num_outputs_total_init = UpstreamEstimate
    /\ limit > UpstreamEstimate
    /\ Len(inputs) >= 2
    /\ limit_reached
    /\ num_outputs_total = limit

====
